---- MODULE Spec2Model ----
\* Workflow engine: graph definition and validation, node registry, the
\* synchronous execution loop, the asynchronous wrapper with its job tracker
\* and the WebSocket broadcaster.
EXTENDS Integers, Sequences, FiniteSets, TLC

VARIABLES
    registry,            \* NodeRegistry._nodes: node name -> registered function
    sync_pc,             \* position of the one synchronous execute call
    sync_graph,          \* WorkflowGraph.definition of that call
    sync_state,          \* execute: state
    sync_current_node,   \* execute: current_node
    sync_iteration_count,\* execute: iteration_count
    sync_log,            \* execute: execution_log
    sync_error,          \* the RuntimeError execute raised, <<>> while none
    sync_invoked,        \* ghost: number of node functions execute has called
    jobs,                \* JobTracker.jobs: run_id -> JobInfo
    clock,               \* datetime.utcnow(), one tick per reading
    active_connections,  \* WebSocketManager.active_connections: topic -> set of channels
    chan,                \* each WebSocket's place in websocket_endpoint
    run,                 \* execute_async: the local variables of each run's coroutine
    bcast,               \* broadcast_to_graph: the locals of each run's call in flight
    hist,                \* ghost: what each run has done so far
    dropped,             \* ghost: the sockets whose send failed in a finished broadcast
    created_graphs,      \* graphs_store: the definitions create_graph has stored
    last_call            \* ghost: the last call made from outside and how it ended

vars == <<registry, created_graphs, last_call, sync_pc, sync_graph, sync_state, sync_current_node,
          sync_iteration_count, sync_log, sync_error, sync_invoked,
          jobs, clock, active_connections, chan, run, bcast, hist, dropped>>

\* what the requests that build graphs and register nodes change
buildVars == <<registry, created_graphs, last_call>>

syncVars == <<sync_pc, sync_graph, sync_state, sync_current_node,
              sync_iteration_count, sync_log, sync_error, sync_invoked>>

asyncVars == <<jobs, clock, active_connections, chan, run, bcast, hist, dropped>>

\* ---------------------------------------------------------------- bounds

\* largest max_refinement_iterations of an input state of the small inputs
MaxRefine == 2

\* Python's None
None == "None"

\* ------------------------------------------------------------ WorkflowState

\* The fields of WorkflowState the engine and the nodes read. Strings are
\* represented by their lengths and lists by their sizes. The input text is
\* represented by `parts`: the lengths of its sentences of four words or
\* more, each of which split_text puts in a chunk of its own and
\* summarize_chunks keeps whole; these are the parts refine_summary finds,
\* in the text and in the merged summary alike.
WorkflowState(cl, ml, ri, mri, parts) ==
    [current_length |-> cl, max_length |-> ml, refinement_iterations |-> ri,
     max_refinement_iterations |-> mri, parts |-> parts,
     chunks |-> 0, chunk_summaries |-> 0, merged_summary |-> 0,
     refined_summary |-> 0]

\* ------------------------------------------------------------ node functions

\* check_length_loop: logs and returns the state it was given
check_length_loop(state) == state

\* split_text: one chunk for each sentence, none for an empty text
split_text(state) == [state EXCEPT !.chunks = Len(state.parts)]

\* summarize_chunks: one summary for each chunk
summarize_chunks(state) == [state EXCEPT !.chunk_summaries = state.chunks]

\* merge_summaries: the summaries joined by ". ", with a closing period
merge_summaries(state) ==
    IF state.chunk_summaries = 0
    THEN [state EXCEPT !.merged_summary = 0, !.current_length = 0]
    ELSE LET sum[i \in 0..state.chunk_summaries] ==
                 IF i = 0 THEN 0
                 ELSE sum[i - 1] + state.parts[i] + (IF i = 1 THEN 0 ELSE 2)
             merged == sum[state.chunk_summaries] + 1
         IN  [state EXCEPT !.merged_summary = merged,
                           !.current_length = merged,
                           !.refined_summary = merged]

\* refine_summary: the length of `refined` after the loop over the parts and
\* the truncation. A part is added, after a space unless it is the first,
\* while len(refined) + len(p) + 2 <= max_len. The truncation applies to the
\* empty string only (a non-empty `refined` is shorter than max_len), when
\* max_len is negative, and leaves it empty.
refined_lengthMut(parts, max_len) ==
    LET acc[i \in 0..Len(parts)] ==
            IF i = 0 THEN 0
            ELSE IF acc[i - 1] = 0 THEN parts[i] ELSE acc[i - 1] + 1 + parts[i]
    IN  acc[Len(parts)]

refined_length(parts, max_len) ==
    LET acc[i \in 0..Len(parts)] ==
            IF i = 0 THEN [refined |-> 0, broke |-> FALSE]
            ELSE LET prev == acc[i - 1] IN
                 IF prev.broke THEN prev
                 ELSE IF prev.refined + parts[i] + 2 <= max_len
                 THEN [prev EXCEPT !.refined =
                          IF @ = 0 THEN parts[i] ELSE @ + 1 + parts[i]]
                 ELSE [prev EXCEPT !.broke = TRUE]
        refined == acc[Len(parts)].refined
    IN  IF refined > max_len THEN 0 ELSE refined

\* refine_summary: stores refined + ".", its length, and counts the attempt
refine_summaryMut(state) ==
    LET new_length == refined_length(state.parts, state.max_length) + 1 IN
    [state EXCEPT !.refined_summary = new_length,
                  !.current_length = new_length]

refine_summary(state) ==
    LET new_length == refined_length(state.parts, state.max_length) + 1 IN
    [state EXCEPT !.refined_summary = new_length,
                  !.current_length = new_length,
                  !.refinement_iterations = state.refinement_iterations + 1]

\* The functions a registry holds are named after the five workflow nodes
\* above, "identity" (a function returning its argument) and "raises" (a
\* function that raises).

\* whether calling the function raises
FuncRaises(func) == func = "raises"

\* the state the function returns, when it returns
FuncApply(func, state) ==
    CASE func = "refine_summary" -> refine_summary(state)
      [] func = "check_length_loop" -> check_length_loop(state)
      [] func = "split_text" -> split_text(state)
      [] func = "summarize_chunks" -> summarize_chunks(state)
      [] func = "merge_summaries" -> merge_summaries(state)
      [] OTHER -> state

\* ---------------------------------------------------------------- registry

\* NodeRegistry.has_node
has_node(reg, name) == name \in DOMAIN reg

\* NodeRegistry.get_node: the function, or a KeyError
get_node_raises(reg, name) == name \notin DOMAIN reg

get_node(reg, name) == reg[name]

\* the registry after the nodes of the workflows below were registered
RegisteredNodes ==
    [n \in {"A", "B", "bad", "split_text", "summarize_chunks",
             "merge_summaries", "refine_summary", "check_length_loop"} |->
        CASE n = "bad" -> "raises"
          [] n \in {"A", "B"} -> "identity"
          [] OTHER -> n]

\* --------------------------------------------------------- graph definition

GraphDefinition(nodes, edges, entry_point) ==
    [nodes |-> nodes, edges |-> edges, entry_point |-> entry_point]

\* membership in a Python list
InList(x, list) == \E i \in 1..Len(list) : list[i] = x

\* GraphDefinition.validate_structure: TRUE when it raises no ValueError
validate_structureMut(def) ==
    /\ InList(def.entry_point, def.nodes)
    /\ \A source \in DOMAIN def.edges : InList(source, def.nodes)
    /\ \A source \in DOMAIN def.edges :
          def.edges[source] # <<>> => InList(def.edges[source][1], def.nodes)

validate_structure(def) ==
    /\ InList(def.entry_point, def.nodes)
    /\ \A source \in DOMAIN def.edges : InList(source, def.nodes)
    /\ \A source \in DOMAIN def.edges :
          \A i \in 1..Len(def.edges[source]) :
              InList(def.edges[source][i], def.nodes)

\* WorkflowGraph.__init__: TRUE when construction succeeds
WorkflowGraphInit(def, reg) ==
    /\ validate_structure(def)
    /\ \A i \in 1..Len(def.nodes) : has_node(reg, def.nodes[i])

NoEdges == [n \in {} |-> <<>>]

\* The definitions submitted to create_graph, each under the key graphs_store
\* would give it (a uuid4 there). g8, g9 and g10 are rejected by
\* validate_structure or by the registry check.
SubmittedDefinitions ==
    ("g1" :> GraphDefinition(<<"A">>, "A" :> <<>>, "A")) @@
    ("g2" :> GraphDefinition(<<"A", "B">>, "A" :> <<"B">>, "A")) @@
    ("g3" :> GraphDefinition(<<"A", "B", "bad">>, "A" :> <<"B", "bad">>, "A")) @@
    ("g4" :> GraphDefinition(<<"A", "bad", "B">>,
                             ("A" :> <<"bad">>) @@ ("bad" :> <<"B">>), "A")) @@
    ("g5" :> GraphDefinition(<<"refine_summary", "check_length_loop">>,
                             ("refine_summary" :> <<"check_length_loop">>) @@
                             ("check_length_loop" :> <<"refine_summary">>),
                             "refine_summary")) @@
    ("g6" :> GraphDefinition(<<"A", "check_length_loop", "B">>,
                             ("A" :> <<"check_length_loop">>) @@
                             ("check_length_loop" :> <<"B">>), "A")) @@
    ("g7" :> GraphDefinition(<<"A", "B">>,
                             ("A" :> <<"B">>) @@ ("B" :> <<"A">>), "A")) @@
    ("g8" :> GraphDefinition(<<"A">>, NoEdges, "B")) @@
    ("g9" :> GraphDefinition(<<"A">>, "A" :> <<"B">>, "A")) @@
    ("g10" :> GraphDefinition(<<"A", "C">>, "A" :> <<"C">>, "A")) @@
    ("g11" :> GraphDefinition(<<"bad">>, "bad" :> <<>>, "bad")) @@
    ("g12" :> GraphDefinition(<<"refine_summary", "check_length_loop", "B">>,
                              ("refine_summary" :> <<"check_length_loop">>) @@
                              ("check_length_loop" :> <<"B">>),
                              "refine_summary")) @@
    ("g13" :> GraphDefinition(<<"refine_summary", "check_length_loop", "B">>,
                              ("refine_summary" :> <<"check_length_loop">>) @@
                              ("check_length_loop" :> <<"B", "refine_summary">>),
                              "refine_summary")) @@
    ("g14" :> GraphDefinition(<<"split_text", "summarize_chunks",
                                "merge_summaries", "refine_summary",
                                "check_length_loop">>,
                              ("split_text" :> <<"summarize_chunks">>) @@
                              ("summarize_chunks" :> <<"merge_summaries">>) @@
                              ("merge_summaries" :> <<"refine_summary">>) @@
                              ("refine_summary" :> <<"check_length_loop">>) @@
                              ("check_length_loop" :> <<"refine_summary">>),
                              "split_text"))

\* graphs_store: the submitted definitions whose construction succeeded
graphs_store(reg) ==
    [id \in { i \in DOMAIN SubmittedDefinitions :
                 WorkflowGraphInit(SubmittedDefinitions[i], reg) } |->
        SubmittedDefinitions[id]]

\* the one stored graph whose traversal never ends by itself
CyclicGraphs == {"g7"}

\* the stored graphs whose successor depends on the state
LoopGraphs == {"g5", "g6", "g12", "g13"}

\* the summarization workflow of create_summarization_graph
SummarizationGraphs == {"g14"}

\* ------------------------------------------------------- successor resolution

\* WorkflowGraph._handle_loop_condition
handle_loop_conditionMut(next_nodes, state) ==
    IF /\ state.current_length > state.max_length
       /\ state.refinement_iterations < state.max_refinement_iterations
    THEN next_nodes[1]
    ELSE None

handle_loop_condition(next_nodes, state) ==
    LET should_loop ==
            /\ state.current_length > state.max_length
            /\ state.refinement_iterations < state.max_refinement_iterations
    IN  IF should_loop /\ InList("refine_summary", next_nodes)
        THEN "refine_summary"
        ELSE None

\* WorkflowGraph._get_next_node
get_next_nodeMut(def, current_node, state) ==
    IF current_node \notin DOMAIN def.edges THEN None
    ELSE LET next_nodes == def.edges[current_node]
         IN  IF next_nodes = <<>> THEN None
             ELSE IF current_node = "check_length_loop"
                  THEN handle_loop_condition(next_nodes, state)
                  ELSE next_nodes[Len(next_nodes)]

get_next_node(def, current_node, state) ==
    IF current_node \notin DOMAIN def.edges THEN None
    ELSE LET next_nodes == def.edges[current_node]
         IN  IF next_nodes = <<>> THEN None
             ELSE IF current_node = "check_length_loop"
                  THEN handle_loop_condition(next_nodes, state)
                  ELSE next_nodes[1]

\* ------------------------------------------------------------------ inputs

\* Initial states of the small runs: a text of one sentence of seven
\* characters, which with its period fits max_length 9, while max_length 0 is
\* exceeded by the period alone; the loop may retry 0..MaxRefine times.
SmallStates ==
    { WorkflowState(0, ml, 0, mri, <<7>>) : mri \in 0..MaxRefine, ml \in {9, 0} }

\* the state given with a graph that never reads it
PlainState == WorkflowState(0, 9, 0, 0, <<7>>)

\* (graph_id, input_data) of the requests with small inputs
SmallInputs ==
    ((DOMAIN SubmittedDefinitions
        \ (LoopGraphs \cup CyclicGraphs \cup SummarizationGraphs)) \X {PlainState})
        \cup (LoopGraphs \X SmallStates)

\* ------------------------------------------------------- synchronous execute

\* execute: max_iterations
max_iterations == 1000

\* execute: the texts of its RuntimeErrors
SyncCeilingText ==
    <<"Execution exceeded maximum iterations", "Possible infinite loop detected">>

SyncNodeFailedTextMut(node) == <<"Node failed">>

SyncNodeFailedText(node) == <<"Node failed", node>>

\* execute: the ceiling test made after the counter was incremented
ExceedsCeilingMut(iteration_count) == iteration_count >= max_iterations

ExceedsCeiling(iteration_count) == iteration_count > max_iterations

\* Initial states whose loop graph needs 998, 1000 and 1002 node executions
\* (two per attempt), and one that exits the loop at once.
LongStates ==
    { WorkflowState(0, 0, 0, mri, <<7>>) :
        mri \in { 1, max_iterations \div 2 - 1, max_iterations \div 2,
                  max_iterations \div 2 + 1 } }

\* (graph_id, input_data) of the requests whose runs come near the ceiling
LongInputs == ({"g5"} \X LongStates) \cup (CyclicGraphs \X {PlainState})

\* the execution log's entry; its timestamp and duration_ms are wall-clock
\* readings that no step of the engine reads back
log_entryMut(node, iteration) == [node |-> node, iteration |-> iteration - 1]

log_entry(node, iteration) == [node |-> node, iteration |-> iteration]

\* execute, up to the loop: the call's locals, for a request among `inputs`
\* whose graph_id is in graphs_store
SyncInit(inputs) ==
    /\ \E input \in inputs :
        /\ input[1] \in DOMAIN graphs_store(RegisteredNodes)
        /\ sync_graph = graphs_store(RegisteredNodes)[input[1]]
        /\ sync_state = input[2]
        /\ sync_current_node = graphs_store(RegisteredNodes)[input[1]].entry_point
    /\ sync_pc = "loop"
    /\ sync_iteration_count = 0
    /\ sync_log = <<>>
    /\ sync_error = <<>>
    /\ sync_invoked = 0

\* execute: one pass of the while loop, or the return after it
SyncIteration ==
    /\ sync_pc = "loop"
    /\ UNCHANGED <<sync_graph, buildVars>>
    /\ IF sync_current_node = None
       THEN /\ sync_pc' = "returned"
            /\ UNCHANGED <<sync_state, sync_current_node, sync_iteration_count,
                           sync_log, sync_error, sync_invoked>>
       ELSE LET count == sync_iteration_count + 1 IN
            /\ sync_iteration_count' = count
            /\ IF ExceedsCeiling(count)
               THEN /\ sync_pc' = "raised"
                    /\ sync_error' = SyncCeilingText
                    /\ UNCHANGED <<sync_state, sync_current_node, sync_log,
                                   sync_invoked>>
               ELSE IF get_node_raises(registry, sync_current_node)
               THEN /\ sync_pc' = "raised"
                    /\ sync_error' = SyncNodeFailedText(sync_current_node)
                    /\ UNCHANGED <<sync_state, sync_current_node, sync_log,
                                   sync_invoked>>
               ELSE LET func == get_node(registry, sync_current_node) IN
                    /\ sync_invoked' = sync_invoked + 1
                    /\ IF FuncRaises(func)
                       THEN /\ sync_pc' = "raised"
                            /\ sync_error' = SyncNodeFailedText(sync_current_node)
                            /\ UNCHANGED <<sync_state, sync_current_node, sync_log>>
                       ELSE LET state == FuncApply(func, sync_state) IN
                            /\ sync_state' = state
                            /\ sync_log' = Append(sync_log,
                                              log_entry(sync_current_node, count))
                            /\ sync_current_node' =
                                  get_next_node(sync_graph, sync_current_node, state)
                            /\ UNCHANGED <<sync_pc, sync_error>>

\* no call from outside made yet
NoCall == [op |-> "", arg |-> <<>>, outcome |-> ""]

\* the application after its nodes were registered and its graphs created
StaticInit ==
    /\ registry = RegisteredNodes
    /\ created_graphs = DOMAIN graphs_store(RegisteredNodes)
    /\ last_call = NoCall

\* ------------------------------------------------------------ job tracker

\* JobInfo.update_progress: progress_percent. int((completed / total) * 100)
\* is computed in binary floating point: for these completed counts and a
\* total of 5 or 10 the product falls just below the exact integer and int()
\* truncates it to one less. Among the totals up to 12 and the counts up to
\* 1000 (the ceiling), these are all the cases.
FloatShortfall ==
    {23, 41, 46, 51, 82, 87, 92, 97, 102, 164, 169, 174, 179, 184, 189, 194,
     199, 204, 323, 328, 333, 338, 343, 348, 353, 358, 363, 368, 373, 378,
     383, 388, 393, 398, 403, 408, 641, 646, 651, 656, 661, 666, 671, 676,
     681, 686, 691, 696, 701, 706, 711, 716, 721, 726, 731, 736, 741, 746,
     751, 756, 761, 766, 771, 776, 781, 786, 791, 796, 801, 806, 811, 816}

progress_percent(completed_nodes, total_nodes) ==
    IF total_nodes > 0
    THEN (100 * completed_nodes) \div total_nodes
            - (IF total_nodes \in {5, 10} /\ completed_nodes \in FloatShortfall
               THEN 1 ELSE 0)
    ELSE 0

\* an unset end_time (None), and a set one
NoTime == <<>>

Time(now) == <<now>>

\* JobInfo.__init__
JobInfo(run_id, graph_id, now) ==
    [run_id |-> run_id, graph_id |-> graph_id, status |-> "started",
     progress_percent |-> 0, last_node |-> "", error_message |-> <<>>,
     start_time |-> now, end_time |-> NoTime,
     total_nodes |-> 0, completed_nodes |-> 0]

\* JobInfo.update_progress
update_progress(job, node, completed_nodes, total_nodes) ==
    [job EXCEPT !.last_node = node,
                !.completed_nodes = completed_nodes,
                !.total_nodes = total_nodes,
                !.progress_percent = progress_percent(completed_nodes, total_nodes),
                !.status = "running"]

\* JobInfo.mark_completed
mark_completedMut(job, now) ==
    [job EXCEPT !.status = "completed", !.progress_percent = 100]

mark_completed(job, now) ==
    [job EXCEPT !.status = "completed", !.progress_percent = 100,
                !.end_time = Time(now)]

\* JobInfo.mark_failed
mark_failedMut(job, error_message, now) ==
    [job EXCEPT !.error_message = error_message, !.end_time = Time(now)]

mark_failed(job, error_message, now) ==
    [job EXCEPT !.status = "failed", !.error_message = error_message,
                !.end_time = Time(now)]

\* JobTracker.create_job
create_job(js, run_id, graph_id, now) ==
    [id \in DOMAIN js \cup {run_id} |->
        IF id = run_id THEN JobInfo(run_id, graph_id, now) ELSE js[id]]

\* JobTracker.update_job_progress
update_job_progressMut(js, run_id, node, completed_nodes, total_nodes) ==
    [id \in DOMAIN js |->
        IF id = run_id
        THEN update_progress(js[id], node, completed_nodes, total_nodes)
        ELSE [js[id] EXCEPT !.last_node = node]]

update_job_progress(js, run_id, node, completed_nodes, total_nodes) ==
    IF run_id \in DOMAIN js
    THEN [js EXCEPT ![run_id] =
            update_progress(@, node, completed_nodes, total_nodes)]
    ELSE js

\* JobTracker.mark_job_completed
mark_job_completed(js, run_id, now) ==
    IF run_id \in DOMAIN js
    THEN [js EXCEPT ![run_id] = mark_completed(@, now)]
    ELSE js

\* JobTracker.mark_job_failed
mark_job_failedMut(js, run_id, error_message, now) ==
    [id \in DOMAIN js \cup {run_id} |->
        mark_failed(IF id \in DOMAIN js THEN js[id] ELSE JobInfo(id, "", now),
                    error_message, now)]

mark_job_failed(js, run_id, error_message, now) ==
    IF run_id \in DOMAIN js
    THEN [js EXCEPT ![run_id] = mark_failed(@, error_message, now)]
    ELSE js

\* JobTracker.get_job: the record, or no record (None), as for end_time
get_job(js, run_id) == IF run_id \in DOMAIN js THEN <<js[run_id]>> ELSE <<>>

\* JobInfo.to_dict: the fields of the API response
to_dict(job) ==
    [run_id |-> job.run_id, graph_id |-> job.graph_id, status |-> job.status,
     progress_percent |-> job.progress_percent, last_node |-> job.last_node,
     error_message |-> job.error_message, start_time |-> job.start_time,
     end_time |-> job.end_time]

\* JobTracker.cleanup_old_jobs, max_age being max_age_hours * 3600 in the
\* unit of the clock
cleanup_old_jobsMut(js, now, max_age) ==
    [run_id \in { id \in DOMAIN js : js[id].end_time = NoTime } |-> js[run_id]]

cleanup_old_jobs(js, now, max_age) ==
    LET cutoff_time == now - max_age
        to_remove == { run_id \in DOMAIN js :
                          /\ js[run_id].end_time # NoTime
                          /\ js[run_id].end_time[1] < cutoff_time }
    IN  [run_id \in DOMAIN js \ to_remove |-> js[run_id]]

\* ------------------------------------------------------- WebSocket manager

\* the map without the key
RemoveKey(f, k) == [x \in DOMAIN f \ {k} |-> f[x]]

\* WebSocketManager.connect, after the accept: the locked section
connect(conns, websocket, graph_id) ==
    IF graph_id \in DOMAIN conns
    THEN [conns EXCEPT ![graph_id] = @ \cup {websocket}]
    ELSE [t \in DOMAIN conns \cup {graph_id} |->
            IF t = graph_id THEN {websocket} ELSE conns[t]]

\* the subscriber set of graph_id with `gone` taken out, the key deleted
\* when nothing is left (the tail of disconnect and of the cleanup)
DiscardAndPruneMut(conns, graph_id, gone) ==
    [conns EXCEPT ![graph_id] = @ \ gone]

DiscardAndPrune(conns, graph_id, gone) ==
    IF conns[graph_id] \ gone = {}
    THEN RemoveKey(conns, graph_id)
    ELSE [conns EXCEPT ![graph_id] = @ \ gone]

\* WebSocketManager.disconnect: the locked section
disconnect(conns, websocket, graph_id) ==
    IF graph_id \in DOMAIN conns
    THEN DiscardAndPrune(conns, graph_id, {websocket})
    ELSE conns

\* broadcast_to_graph, the cleanup: whether active_connections[graph_id]
\* raises KeyError
cleanup_raises(conns, graph_id, disconnected) ==
    disconnected # {} /\ graph_id \notin DOMAIN conns

\* broadcast_to_graph, the cleanup: the map it leaves when it does not raise
cleanupMut(conns, graph_id, disconnected) == conns

cleanup(conns, graph_id, disconnected) ==
    IF disconnected # {}
    THEN DiscardAndPrune(conns, graph_id, disconnected)
    ELSE conns

\* broadcast_to_graph: the early return for a graph_id with no entry
no_connectionsMut(conns, graph_id) == FALSE

no_connections(conns, graph_id) == graph_id \notin DOMAIN conns

\* broadcast_to_graph: whether active_connections[graph_id], read for the
\* copy, raises KeyError
copy_raises(conns, graph_id) == graph_id \notin DOMAIN conns

\* send_node_executed: the message (its timestamp is a wall-clock reading)
NodeExecutedMessageMut(node, iteration, state) ==
    [event |-> "NODE_EXECUTED", node |-> node, iteration |-> iteration - 1,
     state_snapshot |->
        [current_length |-> state.current_length,
         refinement_iterations |-> state.refinement_iterations]]

NodeExecutedMessage(node, iteration, state) ==
    [event |-> "NODE_EXECUTED", node |-> node, iteration |-> iteration,
     state_snapshot |->
        [current_length |-> state.current_length,
         refinement_iterations |-> state.refinement_iterations]]

\* send_completed: the message
CompletedMessage(graph_id, run_id) ==
    [event |-> "COMPLETED", run_id |-> run_id, graph_id |-> graph_id]

\* send_error: the message
ErrorMessage(error_message) == [event |-> "ERROR", message |-> error_message]

\* --------------------------------------------------------- async execution

\* execute_async: graph_id, the topic of every event it publishes
ExecutionTopic == "async_execution"

\* execute_async: max_iterations
async_max_iterations == 1000

\* the run ids of the async requests (uuid4 in run_async)
RunIds == {"r1", "r2"}

\* the WebSocket objects and the graph ids they are connected under
WebSockets == {"w1", "w2"}

Topics == {ExecutionTopic, "g2"}

\* the error texts: f"Node '{current_node}' failed: {str(e)}", the ceiling's
\* text, str(KeyError(graph_id)), and the outer handler's prefix
NodeFailedText(node) == <<"Node failed", node>>

CeilingText == <<"Execution exceeded maximum iterations">>

KeyErrorText(graph_id) == <<"KeyError", graph_id>>

OuterText(text) == <<"Async execution failed">> \o text

\* the locals of a coroutine that was not started
NoRun ==
    [pc |-> "unsubmitted", graph_id |-> "", state |-> PlainState,
     current_node |-> None, iteration_count |-> 0, execution_log |-> <<>>,
     error_msg |-> <<>>, exc |-> <<>>]

\* no broadcast_to_graph call made yet
NoBroadcast ==
    [status |-> "idle", at |-> "", graph_id |-> "",
     message |-> ErrorMessage(<<>>),
     snapshot |-> {}, pending |-> {}, disconnected |-> {}, attempts |-> <<>>,
     dropped_before |-> {}]

NoHistory ==
    [marks |-> <<>>, published |-> <<>>, node_events |-> 0, node_log |-> <<>>,
     invoked |-> 0,
     updates |-> 0, raised_at |-> <<>>, delivered |-> {}]

AsyncInit ==
    /\ jobs = [r \in {} |-> 0]
    /\ clock = 1
    /\ active_connections = [t \in {} |-> {}]
    /\ chan = [w \in WebSockets |-> [st |-> "new", graph_id |-> ""]]
    /\ run = [r \in RunIds |-> NoRun]
    /\ bcast = [r \in RunIds |-> NoBroadcast]
    /\ hist = [r \in RunIds |-> NoHistory]
    /\ dropped = {}

\* the graph a run executes
GraphOf(r) == graphs_store(registry)[run[r].graph_id]

\* websocket_endpoint: the socket is accepted and connected under graph_id
ConnectMut(w, t) ==
    /\ chan[w].st = "new"
    /\ \A r \in RunIds : run[r].pc # "send_text"
    /\ chan' = [chan EXCEPT ![w] = [st |-> "open", graph_id |-> t]]
    /\ active_connections' = connect(active_connections, w, t)
    /\ UNCHANGED <<buildVars, syncVars, jobs, clock, run, bcast, hist, dropped>>

Connect(w, t) ==
    /\ chan[w].st = "new"
    /\ chan' = [chan EXCEPT ![w] = [st |-> "open", graph_id |-> t]]
    /\ active_connections' = connect(active_connections, w, t)
    /\ UNCHANGED <<buildVars, syncVars, jobs, clock, run, bcast, hist, dropped>>

\* websocket_endpoint: the receive loop ended, the finally clause disconnects
Disconnect(w) ==
    /\ chan[w].st = "open"
    /\ chan' = [chan EXCEPT ![w].st = "closed"]
    /\ active_connections' = disconnect(active_connections, w, chan[w].graph_id)
    /\ UNCHANGED <<buildVars, syncVars, jobs, clock, run, bcast, hist, dropped>>

\* run_async: the job is created and the background task is added. The run
\* id is a fresh uuid4: "r1" names the first request's, "r2" the second's.
Submit(r, input) ==
    /\ run[r].pc = "unsubmitted"
    /\ r = "r2" => run["r1"].pc # "unsubmitted"
    /\ input[1] \in DOMAIN graphs_store(registry)
    /\ jobs' = create_job(jobs, r, input[1], clock)
    /\ clock' = clock + 1
    /\ run' = [run EXCEPT ![r] =
                [NoRun EXCEPT !.pc = "start", !.graph_id = input[1],
                              !.state = input[2]]]
    /\ UNCHANGED <<buildVars, syncVars, active_connections, chan, bcast, hist, dropped>>

\* execute_async: the first progress update and the locals before the loop
StartMut(r) ==
    /\ run[r].pc = "start"
    /\ jobs' = update_job_progress(jobs, r, "starting", 0, Len(GraphOf(r).nodes))
    /\ hist' = [hist EXCEPT ![r].updates = @ + 1]
    /\ \E other \in RunIds \ {r} :
          run' = [run EXCEPT ![r].pc = "loop",
                             ![r].current_node = GraphOf(r).entry_point,
                             ![r].iteration_count = run[other].iteration_count]
    /\ UNCHANGED <<buildVars, syncVars, clock, active_connections, chan, bcast, dropped>>

Start(r) ==
    /\ run[r].pc = "start"
    /\ jobs' = update_job_progress(jobs, r, "starting", 0, Len(GraphOf(r).nodes))
    /\ hist' = [hist EXCEPT ![r].updates = @ + 1]
    /\ run' = [run EXCEPT ![r].pc = "loop",
                          ![r].current_node = GraphOf(r).entry_point,
                          ![r].iteration_count = 0]
    /\ UNCHANGED <<buildVars, syncVars, clock, active_connections, chan, bcast, dropped>>

\* execute_async: the while condition
LoopContinues(current_node, iteration_count) ==
    current_node # None /\ iteration_count < async_max_iterations

\* execute_async: the test after the loop
CeilingReached(iteration_count) == iteration_count >= async_max_iterations

\* execute_async: the loop test; the counter and the progress update of the
\* next pass, or the way out of the loop
Loop(r) ==
    /\ run[r].pc = "loop"
    /\ IF LoopContinues(run[r].current_node, run[r].iteration_count)
       THEN /\ run' = [run EXCEPT ![r].iteration_count = @ + 1,
                                  ![r].pc = "invoke"]
            /\ jobs' = update_job_progress(jobs, r, run[r].current_node,
                          run[r].iteration_count, Len(GraphOf(r).nodes))
            /\ hist' = [hist EXCEPT ![r].updates = @ + 1]
       ELSE IF CeilingReached(run[r].iteration_count)
       THEN /\ run' = [run EXCEPT ![r].error_msg = CeilingText,
                                  ![r].pc = "mark_failed"]
            /\ UNCHANGED <<jobs, hist>>
       ELSE /\ run' = [run EXCEPT ![r].pc = "mark_completed"]
            /\ UNCHANGED <<jobs, hist>>
    /\ UNCHANGED <<buildVars, syncVars, clock, active_connections, chan, bcast, dropped>>

\* execute_async: the node function runs in the executor; its result and the
\* log entry, or the failure's text
Invoke(r) ==
    /\ run[r].pc = "invoke"
    /\ IF get_node_raises(registry, run[r].current_node)
       THEN /\ run' = [run EXCEPT
                         ![r].error_msg = NodeFailedText(run[r].current_node),
                         ![r].pc = "mark_failed"]
            /\ hist' = [hist EXCEPT ![r].raised_at =
                            <<hist[r].invoked, hist[r].updates>>]
       ELSE LET func == get_node(registry, run[r].current_node) IN
            IF FuncRaises(func)
            THEN /\ run' = [run EXCEPT
                              ![r].error_msg = NodeFailedText(run[r].current_node),
                              ![r].pc = "mark_failed"]
                 /\ hist' = [hist EXCEPT ![r].invoked = @ + 1,
                                ![r].raised_at =
                                    <<hist[r].invoked + 1, hist[r].updates>>]
            ELSE /\ run' = [run EXCEPT
                              ![r].state = FuncApply(func, run[r].state),
                              ![r].execution_log =
                                  Append(@, log_entry(run[r].current_node,
                                                      run[r].iteration_count)),
                              ![r].pc = "send_node_executed"]
                 /\ hist' = [hist EXCEPT ![r].invoked = @ + 1]
    /\ UNCHANGED <<buildVars, syncVars, jobs, clock, active_connections, chan, bcast, dropped>>

\* execute_async: where the coroutine goes when a broadcast_to_graph call it
\* awaited at `at` ends, by returning or by raising KeyError. A KeyError, and
\* the RuntimeError raised after an inner send_error, reach the outer handler;
\* out of the outer handler's own send_error the exception leaves execute_async.
Resume(locals, def, at, raised) ==
    IF at = "outer_send_error"
    THEN [locals EXCEPT !.pc = "raised",
                        !.exc = IF raised THEN KeyErrorText(ExecutionTopic) ELSE @]
    ELSE IF raised
    THEN [locals EXCEPT !.pc = "outer_mark_failed",
                        !.exc = KeyErrorText(ExecutionTopic),
                        !.error_msg = OuterText(KeyErrorText(ExecutionTopic))]
    ELSE IF at = "send_error"
    THEN [locals EXCEPT !.pc = "outer_mark_failed",
                        !.exc = locals.error_msg,
                        !.error_msg = OuterText(locals.error_msg)]
    ELSE IF at = "send_completed"
    THEN [locals EXCEPT !.pc = "returned"]
    ELSE [locals EXCEPT !.pc = "loop",
                        !.current_node =
                            get_next_node(def, locals.current_node, locals.state)]

\* ghost: the run has published the message
Published(h, message) ==
    IF message.event = "NODE_EXECUTED"
    THEN [h EXCEPT !.node_events = @ + 1,
                   !.node_log = Append(@, log_entry(message.node,
                                                    message.iteration))]
    ELSE [h EXCEPT !.published = Append(@, message)]

\* broadcast_to_graph, up to the first send: the early return, or the copy of
\* the subscriber set the loop iterates over
BeginBroadcast(r, message, at) ==
    /\ hist' = [hist EXCEPT ![r] = Published(@, message)]
    /\ IF no_connections(active_connections, ExecutionTopic)
       THEN /\ bcast' = [bcast EXCEPT ![r] =
                            [NoBroadcast EXCEPT !.status = "returned", !.at = at,
                                                !.graph_id = ExecutionTopic,
                                                !.message = message,
                                                !.dropped_before = dropped]]
            /\ run' = [run EXCEPT ![r] = Resume(@, GraphOf(r), at, FALSE)]
       ELSE IF copy_raises(active_connections, ExecutionTopic)
       THEN /\ bcast' = [bcast EXCEPT ![r] =
                            [NoBroadcast EXCEPT !.status = "raised", !.at = at,
                                                !.graph_id = ExecutionTopic,
                                                !.message = message,
                                                !.dropped_before = dropped]]
            /\ run' = [run EXCEPT ![r] = Resume(@, GraphOf(r), at, TRUE)]
       ELSE /\ bcast' = [bcast EXCEPT ![r] =
                            [NoBroadcast EXCEPT
                                !.status = "sending", !.at = at,
                                !.graph_id = ExecutionTopic,
                                !.message = message,
                                !.snapshot = active_connections[ExecutionTopic],
                                !.pending = active_connections[ExecutionTopic],
                                !.dropped_before = dropped]]
            /\ run' = [run EXCEPT ![r].pc = "send_text"]
    /\ UNCHANGED <<buildVars, syncVars, jobs, clock, active_connections, chan, dropped>>

\* broadcast_to_graph: what a failed send_text does to the rest of the loop
AfterFailedSend(pending) == pending

\* broadcast_to_graph: one send_text of the loop, which succeeds or raises;
\* after the last one the cleanup, and the return to execute_async
SendText(r) ==
    /\ run[r].pc = "send_text"
    /\ \E w \in bcast[r].pending, ok \in BOOLEAN :
        LET rest == IF ok THEN bcast[r].pending \ {w}
                    ELSE AfterFailedSend(bcast[r].pending \ {w})
            b == [bcast[r] EXCEPT
                    !.pending = rest,
                    !.attempts = Append(@, w),
                    !.disconnected = IF ok THEN @ ELSE @ \cup {w}]
        IN  /\ hist' = [hist EXCEPT ![r].delivered =
                            IF ok THEN @ \cup {b.message.event} ELSE @]
            /\ IF b.pending # {}
               THEN /\ bcast' = [bcast EXCEPT ![r] = b]
                    /\ UNCHANGED <<run, active_connections, dropped>>
               ELSE IF cleanup_raises(active_connections, ExecutionTopic,
                                      b.disconnected)
               THEN /\ bcast' = [bcast EXCEPT ![r] = [b EXCEPT !.status = "raised"]]
                    /\ run' = [run EXCEPT ![r] =
                                  Resume(@, GraphOf(r), b.at, TRUE)]
                    /\ dropped' = dropped \cup b.disconnected
                    /\ UNCHANGED active_connections
               ELSE /\ bcast' = [bcast EXCEPT ![r] = [b EXCEPT !.status = "returned"]]
                    /\ run' = [run EXCEPT ![r] =
                                  Resume(@, GraphOf(r), b.at, FALSE)]
                    /\ active_connections' =
                          cleanup(active_connections, ExecutionTopic, b.disconnected)
                    /\ dropped' = dropped \cup b.disconnected
    /\ UNCHANGED <<buildVars, syncVars, jobs, clock, chan>>

\* execute_async: send_node_executed for the node just logged
SendNodeExecuted(r) ==
    /\ run[r].pc = "send_node_executed"
    /\ BeginBroadcast(r, NodeExecutedMessage(run[r].current_node,
                            run[r].iteration_count, run[r].state),
                      "send_node_executed")

\* execute_async: mark_job_failed of the node failure handler and of the
\* ceiling check
MarkFailed(r) ==
    /\ run[r].pc = "mark_failed"
    /\ jobs' = mark_job_failed(jobs, r, run[r].error_msg, clock)
    /\ clock' = clock + 1
    /\ hist' = [hist EXCEPT ![r].marks = Append(@, "failed")]
    /\ run' = [run EXCEPT ![r].pc = "send_error"]
    /\ UNCHANGED <<buildVars, syncVars, active_connections, chan, bcast, dropped>>

\* execute_async: send_error of the node failure handler and of the ceiling
\* check, followed by raise RuntimeError(error_msg)
SendError(r) ==
    /\ run[r].pc = "send_error"
    /\ BeginBroadcast(r, ErrorMessage(run[r].error_msg), "send_error")

\* execute_async: mark_job_completed
MarkCompleted(r) ==
    /\ run[r].pc = "mark_completed"
    /\ jobs' = mark_job_completed(jobs, r, clock)
    /\ clock' = clock + 1
    /\ hist' = [hist EXCEPT ![r].marks = Append(@, "completed")]
    /\ run' = [run EXCEPT ![r].pc = "send_completed"]
    /\ UNCHANGED <<buildVars, syncVars, active_connections, chan, bcast, dropped>>

\* execute_async: send_completed, followed by the return
SendCompleted(r) ==
    /\ run[r].pc = "send_completed"
    /\ BeginBroadcast(r, CompletedMessage(ExecutionTopic, r), "send_completed")

\* execute_async: mark_job_failed of the outer handler
OuterMarkFailed(r) ==
    /\ run[r].pc = "outer_mark_failed"
    /\ jobs' = mark_job_failed(jobs, r, run[r].error_msg, clock)
    /\ clock' = clock + 1
    /\ hist' = [hist EXCEPT ![r].marks = Append(@, "failed")]
    /\ run' = [run EXCEPT ![r].pc = "outer_send_error"]
    /\ UNCHANGED <<buildVars, syncVars, active_connections, chan, bcast, dropped>>

\* execute_async: send_error of the outer handler, followed by the re-raise
OuterSendError(r) ==
    /\ run[r].pc = "outer_send_error"
    /\ BeginBroadcast(r, ErrorMessage(run[r].error_msg), "outer_send_error")

\* ---------------------------------------------------------- specifications

\* one step of a run's coroutine
RunStep(r) ==
    \/ Start(r)
    \/ Loop(r)
    \/ Invoke(r)
    \/ SendNodeExecuted(r)
    \/ SendText(r)
    \/ MarkFailed(r)
    \/ SendError(r)
    \/ MarkCompleted(r)
    \/ SendCompleted(r)
    \/ OuterMarkFailed(r)
    \/ OuterSendError(r)

Init == StaticInit /\ SyncInit({<<"g1", PlainState>>}) /\ AsyncInit

\* the requests, the sockets' lifecycle and the coroutines' steps, for
\* requests of `inputs` under the run ids `ids` and `sockets` connecting
\* under the graph ids `topics`
AsyncNext(ids, inputs, sockets, topics) ==
    \/ \E r \in ids, input \in inputs : Submit(r, input)
    \/ \E w \in sockets, t \in topics : Connect(w, t)
    \/ \E w \in sockets : Disconnect(w)
    \/ \E r \in ids : RunStep(r)

\* one async run on the small inputs, with sockets connecting and disconnecting
Next == AsyncNext({"r1"}, SmallInputs, WebSockets, Topics)

Spec == Init /\ [][Next]_vars

\* (graph_id, input_data) of the requests of two concurrent runs
PairInputs == {<<"g1", PlainState>>, <<"g11", PlainState>>}

NextPair == AsyncNext(RunIds, PairInputs, WebSockets, {ExecutionTopic})

\* two concurrent async runs
SpecPair == Init /\ [][NextPair]_vars

NextCeiling == AsyncNext({"r1"}, LongInputs, {"w1"}, {ExecutionTopic})

\* (graph_id, input_data) of the requests of two concurrent runs of two nodes
DuoInputs == {<<"g2", PlainState>>, <<"g4", PlainState>>}

NextDuo == AsyncNext(RunIds, DuoInputs, {"w1"}, {ExecutionTopic})

\* two concurrent async runs of two-node graphs, with one socket
SpecDuo == Init /\ [][NextDuo]_vars

\* one async run on the inputs near the ceiling, with one socket
SpecCeiling == Init /\ [][NextCeiling]_vars

InitSync == StaticInit /\ SyncInit(SmallInputs \cup LongInputs) /\ AsyncInit

NextSync == SyncIteration /\ UNCHANGED asyncVars

\* the synchronous execute on small inputs and on inputs near the ceiling
SpecSync == InitSync /\ [][NextSync]_vars

\* Initial states of the summarization workflow: texts of no, one and two
\* sentences of seven characters, limits that hold none, one or both of them,
\* and up to MaxRefine refinement attempts.
SummaryStates ==
    { WorkflowState(0, ml, 0, mri, parts) :
        ml \in {0, 1, 9, 17}, mri \in 0..MaxRefine,
        parts \in {<<>>, <<7>>, <<7, 7>>} }

InitSummarize ==
    StaticInit /\ SyncInit(SummarizationGraphs \X SummaryStates) /\ AsyncInit

\* the synchronous execute on the summarization workflow
SpecSummarize == InitSummarize /\ [][NextSync]_vars

\* Initial states of the summarization workflow whose summary never fits and
\* whose refinement attempts take the run to 999 and to 1001 node executions
LongSummaryStates ==
    { WorkflowState(0, 0, 0, mri, <<7>>) :
        mri \in { (max_iterations - 4) \div 2, (max_iterations - 4) \div 2 + 1 } }

InitRefine ==
    /\ StaticInit
    /\ SyncInit(SummarizationGraphs \X (SummaryStates \cup LongSummaryStates))
    /\ AsyncInit

\* run_async with the graph and the input data of the request to /run that
\* has ended
SubmitSame(r) ==
    /\ sync_pc \in {"returned", "raised"}
    /\ \E graph_id \in SummarizationGraphs :
          /\ SubmittedDefinitions[graph_id] = sync_graph
          /\ Submit(r, <<graph_id,
                         WorkflowState(0, sync_state.max_length, 0,
                                       sync_state.max_refinement_iterations,
                                       sync_state.parts)>>)

NextRefine ==
    \/ NextSync
    \/ SubmitSame("r1")
    \/ Connect("w1", ExecutionTopic)
    \/ Disconnect("w1")
    \/ RunStep("r1")

\* the summarization workflow run by execute and then, with the same input
\* data, by execute_async with one socket
SpecRefine == InitRefine /\ [][NextRefine]_vars

\* the fairness of the event loop: a coroutine that can take a step takes
\* it (node functions and sends return or raise)
Fairness == \A r \in RunIds : WF_vars(RunStep(r))

\* Spec under the event loop's fairness
SpecLive == Spec /\ Fairness

\* ------------------------------------------- registering nodes, building graphs

\* most graphs create_graph stores in one behaviour
MaxGraphs == 2

\* NodeRegistry.__init__: no node registered
EmptyRegistry == [n \in {} |-> ""]

\* NodeRegistry.register_node: whether it raises ValueError
register_node_raisesMut(reg, name) == FALSE

register_node_raises(reg, name) == name \in DOMAIN reg

\* NodeRegistry.register_node: the registry after self._nodes[name] = func
register_nodeMut(reg, name, func) == [n \in {name} |-> func]

register_node(reg, name, func) ==
    [n \in DOMAIN reg \cup {name} |-> IF n = name THEN func ELSE reg[n]]

\* WorkflowGraph.__init__: the ValueError it lets out or raises, "" when the
\* graph is constructed
WorkflowGraphErrorMut(def, reg) ==
    IF \E i \in 1..Len(def.nodes) : ~ has_node(reg, def.nodes[i])
    THEN "not found in registry"
    ELSE IF ~ validate_structure(def) THEN "not in nodes list"
    ELSE ""

WorkflowGraphError(def, reg) ==
    IF ~ validate_structure(def) THEN "not in nodes list"
    ELSE IF \E i \in 1..Len(def.nodes) : ~ has_node(reg, def.nodes[i])
    THEN "not found in registry"
    ELSE ""

\* the names and the functions given to register_node
RegisteredNames == {"A", "B", "bad"}

RegisteredFuncs == {"identity", "raises"}

\* the application before any node is registered and any graph created
BuildInit ==
    /\ registry = EmptyRegistry
    /\ created_graphs = {}
    /\ last_call = NoCall

\* a call of register_node
RegisterNode(name, func) ==
    /\ IF register_node_raises(registry, name)
       THEN /\ last_call' = [op |-> "register_node", arg |-> <<name, func>>,
                             outcome |-> "ValueError"]
            /\ UNCHANGED registry
       ELSE /\ registry' = register_node(registry, name, func)
            /\ last_call' = [op |-> "register_node", arg |-> <<name, func>>,
                             outcome |-> ""]
    /\ UNCHANGED <<created_graphs, syncVars, asyncVars>>

\* create_graph: the definition is constructed and, unless that raised,
\* stored (under the definition's id here, under a fresh uuid4 there)
CreateGraph(id) ==
    /\ Cardinality(created_graphs) < MaxGraphs
    /\ LET error == WorkflowGraphError(SubmittedDefinitions[id], registry) IN
        /\ created_graphs' =
              IF error = "" THEN created_graphs \cup {id} ELSE created_graphs
        /\ last_call' = [op |-> "create_graph", arg |-> <<id>>, outcome |-> error]
    /\ UNCHANGED <<registry, syncVars, asyncVars>>

InitBuild == BuildInit /\ SyncInit({<<"g1", PlainState>>}) /\ AsyncInit

NextBuild ==
    \/ \E name \in RegisteredNames, func \in RegisteredFuncs : RegisterNode(name, func)
    \/ \E id \in DOMAIN SubmittedDefinitions : CreateGraph(id)

\* nodes are registered and graphs are created, in any order
SpecBuild == InitBuild /\ [][NextBuild]_vars

\* The definitions given to validate_structure: one or two nodes, an entry
\* point among three names, and for each of three names no adjacency entry or
\* one of these lists.
RequestedNodes == {<<"A">>, <<"A", "B">>}

RequestedTargets == {<<>>, <<"A">>, <<"B">>, <<"C">>, <<"A", "C">>}

RequestedEdges == UNION { [S -> RequestedTargets] : S \in SUBSET {"A", "B", "C"} }

RequestedDefinitions ==
    { GraphDefinition(nodes, edges, entry_point) :
        nodes \in RequestedNodes, edges \in RequestedEdges,
        entry_point \in {"A", "B", "C"} }

\* a GraphDefinition was made from a request
InitValidate ==
    /\ registry = RegisteredNodes
    /\ created_graphs = {}
    /\ \E def \in RequestedDefinitions :
          last_call = [op |-> "GraphDefinition", arg |-> def, outcome |-> ""]
    /\ SyncInit({<<"g1", PlainState>>})
    /\ AsyncInit

\* a call of validate_structure on the definition
Validate ==
    /\ last_call.op = "GraphDefinition"
    /\ last_call' = [op |-> "validate_structure", arg |-> last_call.arg,
                     outcome |-> IF validate_structure(last_call.arg)
                                 THEN "" ELSE "ValueError"]
    /\ UNCHANGED <<registry, created_graphs, syncVars, asyncVars>>

NextValidate == Validate

\* validate_structure is called on each of the definitions
SpecValidate == InitValidate /\ [][NextValidate]_vars

\* --------------------------------------------------- calls of the job tracker

\* last clock reading of the job tracker's callers
MaxClock == 4

\* the arguments the callers give: a graph id, (node, completed_nodes,
\* total_nodes) of a progress update, an error message
TrackerGraphs == {"g2"}

TrackerProgress == {<<"A", 0, 2>>, <<"B", 1, 2>>, <<"A", 0, 0>>, <<"B", 23, 5>>}

TrackerError == <<"Node failed", "B">>

\* a call of create_job, with the fresh uuid4 its caller made
CallCreateJob(run_id, graph_id) ==
    /\ clock < MaxClock
    /\ run_id \notin DOMAIN jobs
    /\ jobs' = create_job(jobs, run_id, graph_id, clock)
    /\ clock' = clock + 1
    /\ last_call' = [op |-> "create_job", arg |-> <<run_id>>, outcome |-> ""]
    /\ UNCHANGED <<registry, created_graphs, syncVars, active_connections,
                   chan, run, bcast, hist, dropped>>

\* a call of update_job_progress
CallUpdateJobProgress(run_id, progress) ==
    /\ jobs' = update_job_progress(jobs, run_id, progress[1], progress[2],
                                   progress[3])
    /\ last_call' = [op |-> "update_job_progress",
                     arg |-> <<run_id>> \o progress, outcome |-> ""]
    /\ UNCHANGED <<registry, created_graphs, syncVars, clock,
                   active_connections, chan, run, bcast, hist, dropped>>

\* a call of mark_job_completed; utcnow is read when the record exists
CallMarkJobCompleted(run_id) ==
    /\ clock < MaxClock
    /\ jobs' = mark_job_completed(jobs, run_id, clock)
    /\ clock' = IF run_id \in DOMAIN jobs THEN clock + 1 ELSE clock
    /\ last_call' = [op |-> "mark_job_completed", arg |-> <<run_id>>,
                     outcome |-> ""]
    /\ UNCHANGED <<registry, created_graphs, syncVars, active_connections,
                   chan, run, bcast, hist, dropped>>

\* a call of mark_job_failed; utcnow is read when the record exists
CallMarkJobFailed(run_id, error_message) ==
    /\ clock < MaxClock
    /\ jobs' = mark_job_failed(jobs, run_id, error_message, clock)
    /\ clock' = IF run_id \in DOMAIN jobs THEN clock + 1 ELSE clock
    /\ last_call' = [op |-> "mark_job_failed", arg |-> <<run_id>>,
                     outcome |-> ""]
    /\ UNCHANGED <<registry, created_graphs, syncVars, active_connections,
                   chan, run, bcast, hist, dropped>>

NextTracker ==
    \/ \E run_id \in RunIds, graph_id \in TrackerGraphs :
          CallCreateJob(run_id, graph_id)
    \/ \E run_id \in RunIds, progress \in TrackerProgress :
          CallUpdateJobProgress(run_id, progress)
    \/ \E run_id \in RunIds : CallMarkJobCompleted(run_id)
    \/ \E run_id \in RunIds : CallMarkJobFailed(run_id, TrackerError)

\* the job tracker's operations called in any order, with any run id
SpecTracker == Init /\ [][NextTracker]_vars

\* ------------------------------- runs while nodes are still registered

\* the names given to register_node and the definitions given to create_graph
\* while graphs run: the single node A and the chain A -> [B]
RegistryNames == {"A", "B"}

RegistryGraphs == {"g1", "g2"}

\* the application before any node is registered, any graph created and any
\* request to /run made
RegistryInit ==
    /\ BuildInit
    /\ sync_pc = "idle"
    /\ sync_graph = SubmittedDefinitions["g1"]
    /\ sync_state = PlainState
    /\ sync_current_node = None
    /\ sync_iteration_count = 0
    /\ sync_log = <<>>
    /\ sync_error = <<>>
    /\ sync_invoked = 0
    /\ AsyncInit

\* run_graph: the graph is looked up in the store and execute is called
RunGraph(input) ==
    /\ sync_pc = "idle"
    /\ input[1] \in created_graphs
    /\ sync_pc' = "loop"
    /\ sync_graph' = SubmittedDefinitions[input[1]]
    /\ sync_state' = input[2]
    /\ sync_current_node' = SubmittedDefinitions[input[1]].entry_point
    /\ UNCHANGED <<sync_iteration_count, sync_log, sync_error, sync_invoked,
                   buildVars, asyncVars>>

\* run_async for a graph that create_graph has stored
SubmitCreated(r, input) ==
    /\ input[1] \in created_graphs
    /\ Submit(r, input)

NextRegistry ==
    \/ \E name \in RegistryNames, func \in RegisteredFuncs : RegisterNode(name, func)
    \/ \E id \in RegistryGraphs : CreateGraph(id)
    \/ \E id \in RegistryGraphs : RunGraph(<<id, PlainState>>)
    \/ NextSync
    \/ \E id \in RegistryGraphs : SubmitCreated("r1", <<id, PlainState>>)
    \/ Connect("w1", ExecutionTopic)
    \/ Disconnect("w1")
    \/ RunStep("r1")

\* nodes are registered and graphs are created while one synchronous execute
\* and one async run, with one socket, are made on the graphs created
SpecRegistry == RegistryInit /\ [][NextRegistry]_vars

\* ------------------------------------------ both executions of the engine

\* (graph_id, input_data) of the requests to /run and to /run_async: a single
\* node, a chain of two, a chain whose second node fails, and the loop of
\* refine_summary and check_length_loop with a summary that never fits
BothInputs ==
    {<<"g1", PlainState>>, <<"g2", PlainState>>, <<"g4", PlainState>>,
     <<"g5", WorkflowState(0, 0, 0, MaxRefine, <<7>>)>>}

InitBoth == StaticInit /\ SyncInit(BothInputs) /\ AsyncInit

NextBoth ==
    \/ NextSync
    \/ AsyncNext({"r1"}, BothInputs, {"w1"}, {ExecutionTopic})

\* one synchronous execute and one async run, with one socket
SpecBoth == InitBoth /\ [][NextBoth]_vars

\* (graph_id, input_data) of the requests of executions of the same graph:
\* refine_summary and check_length_loop from two initial states, and the
\* single node that fails
TwinInputs ==
    {<<"g5", WorkflowState(0, 0, 0, 0, <<7>>)>>,
     <<"g5", WorkflowState(0, 0, 0, 1, <<7>>)>>,
     <<"g11", PlainState>>}

\* the one of them that is also sent to /run
TwinSyncInputs == {<<"g5", WorkflowState(0, 0, 0, 1, <<7>>)>>}

InitTwin == StaticInit /\ SyncInit(TwinSyncInputs) /\ AsyncInit

NextTwin ==
    \/ NextSync
    \/ AsyncNext(RunIds, TwinInputs, {"w1"}, {ExecutionTopic})

\* one synchronous execute and two async runs, one after the other or
\* at the same time, with one socket
SpecTwin == InitTwin /\ [][NextTwin]_vars

\* -------------------------------------- status polls and sweeps with runs

\* get_run_status: get_job and to_dict, or the 404 for an unknown run id
GetRunStatus(run_id) ==
    /\ LET job == get_job(jobs, run_id)
       IN  last_call' =
              [op |-> "get_run_status", arg |-> <<run_id>>,
               outcome |-> IF job = <<>>
                           THEN [status_code |-> 404]
                           ELSE to_dict(job[1])]
    /\ UNCHANGED <<registry, created_graphs, syncVars, asyncVars>>

NextPoll ==
    \/ AsyncNext(RunIds, PairInputs, {"w1"}, {ExecutionTopic})
    \/ \E run_id \in RunIds : GetRunStatus(run_id)

\* two concurrent async runs, with one socket, and status polls of their jobs
SpecPoll == Init /\ [][NextPoll]_vars

\* the max_age of a sweep, in the unit of the clock
SweepAges == {0, 1, 2}

\* a call of cleanup_old_jobs: it reads utcnow for the cutoff
CallCleanupOldJobs(max_age) ==
    /\ jobs' = cleanup_old_jobs(jobs, clock, max_age)
    /\ last_call' = [op |-> "cleanup_old_jobs", arg |-> <<max_age, clock>>,
                     outcome |-> DOMAIN jobs \ DOMAIN jobs']
    /\ UNCHANGED <<registry, created_graphs, syncVars, clock,
                   active_connections, chan, run, bcast, hist, dropped>>

NextSweep ==
    \/ AsyncNext(RunIds, PairInputs, {"w1"}, {ExecutionTopic})
    \/ \E max_age \in SweepAges : CallCleanupOldJobs(max_age)

\* two concurrent async runs, with one socket, and sweeps of the old jobs
SpecSweep == Init /\ [][NextSweep]_vars

\* ------------------------------------------------------------------ claims

\* C1: the synchronous execute invokes at most 1000 node functions; it ends
\* by returning when no successor is left, and it raises the iteration-limit
\* error exactly when 1000 nodes have completed and a further one is due, so
\* the graph whose cycle never exits always ends with that error.
C1_SyncCeiling ==
    /\ sync_invoked <= 1000
    /\ sync_iteration_count <= 1001
    /\ Len(sync_log) <= sync_invoked
    /\ sync_pc = "returned" => sync_current_node = None
    /\ (sync_pc = "raised" /\ sync_error = SyncCeilingText)
          => (Len(sync_log) = 1000 /\ sync_current_node # None)
    /\ (sync_pc # "loop" /\ Len(sync_log) = 1000 /\ sync_current_node # None)
          => (sync_pc = "raised" /\ sync_error = SyncCeilingText)
    /\ (sync_pc # "loop" /\ sync_graph = SubmittedDefinitions["g7"])
          => (sync_pc = "raised" /\ sync_error = SyncCeilingText)

\* the never-exiting cycle was stopped by the error after 1000 invocations
C1_Witness ==
    /\ sync_pc = "raised"
    /\ sync_error = SyncCeilingText
    /\ sync_invoked = 1000
    /\ sync_graph = SubmittedDefinitions["g7"]

\* a traversal that ends by itself with its 1000th node returns
C1_WitnessReturn ==
    /\ sync_pc = "returned"
    /\ sync_invoked = 1000

\* C7: the async wrapper marks the job FAILED with the iteration-limit error
\* only when a further node is due after 1000 executions; a run whose
\* traversal ends by itself within 1000 executions, no node and no publish
\* having failed, is COMPLETED.
C7_AsyncCeilingAsSync ==
    \A r \in DOMAIN jobs :
        /\ (jobs[r].status = "failed" /\ jobs[r].error_message = CeilingText)
              => run[r].current_node # None
        /\ (run[r].pc \in {"returned", "raised"} /\ run[r].current_node = None
            /\ hist[r].invoked <= 1000 /\ hist[r].raised_at = <<>>
            /\ run[r].exc # KeyErrorText(ExecutionTopic))
              => jobs[r].status = "completed"

\* a further node was due after 1000 executions and the job failed for it
C7_Witness ==
    \E r \in DOMAIN jobs :
        /\ jobs[r].status = "failed"
        /\ jobs[r].error_message = CeilingText
        /\ run[r].current_node # None
        /\ hist[r].invoked = 1000

\* C2: once a COMPLETED event of run r was delivered to a subscriber, the
\* job record of r has status COMPLETED.
C2_CompletedEventThenCompleted ==
    \A r \in DOMAIN jobs :
        "COMPLETED" \in hist[r].delivered => jobs[r].status = "completed"

\* C3: no tracker operation lowers a job's progress percent, and a COMPLETED
\* job's progress percent is 100.
C3_ProgressMonotone ==
    [][\A r \in DOMAIN jobs :
          /\ jobs'[r].progress_percent >= jobs[r].progress_percent
          /\ jobs'[r].status = "completed" => jobs'[r].progress_percent = 100]_vars

\* C4: a run applies exactly one terminal mark to its job, and a terminal
\* job's status, error text and end timestamp never change again.
C4_TerminalOnce ==
    [][\A r \in DOMAIN jobs :
          /\ Len(hist'[r].marks) <= 1
          /\ jobs[r].status \in {"completed", "failed"} =>
                /\ jobs'[r].status = jobs[r].status
                /\ jobs'[r].error_message = jobs[r].error_message
                /\ jobs'[r].end_time = jobs[r].end_time]_vars

\* C5: no run is marked FAILED after it was marked COMPLETED, and no run
\* publishes both a COMPLETED and an ERROR event.
C5_OneOutcome ==
    \A r \in RunIds :
        /\ ~ \E i, j \in 1..Len(hist[r].marks) :
                i < j /\ hist[r].marks[i] = "completed" /\ hist[r].marks[j] = "failed"
        /\ ~ \E i, j \in 1..Len(hist[r].published) :
                /\ hist[r].published[i].event = "COMPLETED"
                /\ hist[r].published[j].event = "ERROR"

\* C6: after a node function raised, the run invokes no further node and
\* makes no further progress update, marks the job FAILED once with the text
\* naming the node, and publishes one ERROR event with that text before the
\* failure leaves execute_async.
C6_NodeFailureHandledOnce ==
    \A r \in RunIds :
        hist[r].raised_at # <<>> =>
            /\ hist[r].invoked = hist[r].raised_at[1]
            /\ hist[r].updates = hist[r].raised_at[2]
            /\ Len(hist[r].marks) <= 1
            /\ run[r].pc = "raised" =>
                  /\ hist[r].marks = <<"failed">>
                  /\ jobs[r].error_message = NodeFailedText(run[r].current_node)
                  /\ hist[r].published =
                        <<ErrorMessage(NodeFailedText(run[r].current_node))>>

SeqRange(seq) == { seq[i] : i \in 1..Len(seq) }

\* C9: a publish sends the event once to every socket of the subscriber set
\* it copied, whichever sends fail; when it has ended, no socket whose send
\* failed is in the topic's subscriber set, and no publish that starts later
\* iterates over such a socket.
C9_FailedSendDropped ==
    /\ \A r \in RunIds :
          /\ Len(bcast[r].attempts) = Cardinality(SeqRange(bcast[r].attempts))
          /\ SeqRange(bcast[r].attempts) = bcast[r].snapshot \ bcast[r].pending
          /\ bcast[r].disconnected \subseteq SeqRange(bcast[r].attempts)
          /\ bcast[r].snapshot \cap bcast[r].dropped_before = {}
          /\ bcast[r].status \in {"returned", "raised"} =>
                /\ bcast[r].pending = {}
                /\ bcast[r].disconnected \subseteq dropped
    /\ ExecutionTopic \in DOMAIN active_connections =>
          active_connections[ExecutionTopic] \cap dropped = {}

\* a publish has returned after one send failed and another one succeeded
C9_Witness ==
    \E r \in RunIds :
        /\ bcast[r].status = "returned"
        /\ bcast[r].disconnected # {}
        /\ bcast[r].snapshot \ bcast[r].disconnected # {}
        /\ bcast[r].message.event \in hist[r].delivered
        /\ ExecutionTopic \in DOMAIN active_connections

\* the program points of execute_async that call a send_* of the manager
PublishPcs ==
    {"send_node_executed", "send_error", "send_completed", "outer_send_error"}

\* C10: a publish to a topic without subscribers returns without raising,
\* sends nothing and leaves the subscriber map as it was.
C10_PublishNoSubscribers ==
    [][\A r \in RunIds :
          (/\ run[r].pc \in PublishPcs
           /\ run'[r] # run[r]
           /\ ExecutionTopic \notin DOMAIN active_connections) =>
              /\ bcast'[r].status = "returned"
              /\ bcast'[r].attempts = <<>>
              /\ run'[r].pc # "send_text"
              /\ hist'[r].delivered = hist[r].delivered
              /\ active_connections' = active_connections]_vars

\* a publish found no subscribers while a socket was connected elsewhere
C10_Witness ==
    \E r \in RunIds :
        /\ bcast[r].status = "returned"
        /\ bcast[r].at = "send_completed"
        /\ bcast[r].snapshot = {}
        /\ ExecutionTopic \notin DOMAIN active_connections
        /\ DOMAIN active_connections # {}
        /\ active_connections # <<>>
        /\ ExecutionTopic \notin DOMAIN active_connections

\* the synchronous execute has just run the node and resolved its successor
SyncResolved(node) ==
    /\ sync_current_node = node
    /\ Len(sync_log') = Len(sync_log) + 1
    /\ sync_pc' = "loop"

\* the loop condition as the specification words it
ShouldLoop(state) ==
    /\ state.current_length > state.max_length
    /\ state.refinement_iterations < state.max_refinement_iterations

\* the adjacency list of the node, <<>> when the node has no entry
Adjacency(def, node) ==
    IF node \in DOMAIN def.edges THEN def.edges[node] ELSE <<>>

\* C13 as stated: for the node "check_length_loop" with a non-empty adjacency
\* list the successor is "refine_summary" if and only if current_length >
\* max_length and refinement_iterations < max_refinement_iterations, and is
\* absent otherwise.
C13_LoopTargetIffCondition ==
    [][(SyncResolved("check_length_loop")
          /\ Adjacency(sync_graph, "check_length_loop") # <<>>) =>
            /\ sync_current_node' \in {"refine_summary", None}
            /\ sync_current_node' = "refine_summary" <=> ShouldLoop(sync_state')]_vars

\* C13 amended: the successor of "check_length_loop" is "refine_summary" if
\* and only if the loop condition holds and "refine_summary" is an entry of
\* the node's adjacency list, at any position; in every other case the
\* successor is absent, whatever else the list holds.
C13_LoopTargetIffConditionAndListed ==
    [][(SyncResolved("check_length_loop")
          /\ Adjacency(sync_graph, "check_length_loop") # <<>>) =>
            /\ sync_current_node' \in {"refine_summary", None}
            /\ sync_current_node' = "refine_summary" <=>
                  (/\ ShouldLoop(sync_state')
                   /\ InList("refine_summary",
                             Adjacency(sync_graph, "check_length_loop")))]_vars

\* the loop condition held at "check_length_loop", whose adjacency list has
\* an entry but not "refine_summary", and the traversal ended there
C13_Witness ==
    /\ sync_graph = SubmittedDefinitions["g12"]
    /\ sync_pc = "returned"
    /\ sync_log # <<>>
    /\ sync_log[Len(sync_log)].node = "check_length_loop"
    /\ ShouldLoop(sync_state)

\* C14: for a node other than "check_length_loop" the successor is the first
\* entry of its adjacency list whatever the state, and is absent, the run
\* ending without an error, when the node has no entry or an empty one.
C14_FirstEntryOnly ==
    [][/\ (\A node \in {"A", "B", "refine_summary"} :
          SyncResolved(node) =>
            /\ sync_current_node' =
                  IF Adjacency(sync_graph, node) = <<>> THEN None
                  ELSE Adjacency(sync_graph, node)[1]
            /\ sync_error' = <<>>)
       /\ (sync_pc = "loop" /\ sync_current_node = None) =>
             (sync_pc' = "returned" /\ sync_error' = <<>>)]_vars

\* node A of the graph whose adjacency list for A is <<B, bad>> was followed
\* by B only, and the run ended after B
C14_Witness ==
    /\ sync_graph = SubmittedDefinitions["g3"]
    /\ sync_pc = "returned"
    /\ sync_log = <<log_entry("A", 1), log_entry("B", 2)>>

\* C15: when a node function raised in the synchronous execute, the error
\* names the node, no further node was invoked, and the log holds one entry,
\* in order, for each node completed before it and none for the failing node.
C15_SyncNodeFailure ==
    (sync_pc = "raised" /\ sync_error # SyncCeilingText) =>
        /\ sync_error = <<"Node failed", sync_current_node>>
        /\ sync_invoked = sync_iteration_count
        /\ Len(sync_log) = sync_invoked - 1
        /\ \A i \in 1..Len(sync_log) : sync_log[i].iteration = i
        /\ sync_log = <<>> \/ sync_log[Len(sync_log)].node # sync_current_node

\* the second node of a graph raised after the first had completed
C15_Witness ==
    /\ sync_pc = "raised"
    /\ sync_error = <<"Node failed", "bad">>
    /\ sync_log = <<log_entry("A", 1)>>
    /\ sync_graph = SubmittedDefinitions["g4"]

\* the elements of a Python list
ListItems(list) == { list[i] : i \in 1..Len(list) }

\* the three conditions of a structurally valid definition
StructurallyValid(def) ==
    /\ def.entry_point \in ListItems(def.nodes)
    /\ DOMAIN def.edges \subseteq ListItems(def.nodes)
    /\ \A source \in DOMAIN def.edges :
          ListItems(def.edges[source]) \subseteq ListItems(def.nodes)

\* definitions with a self-loop, with a cycle, and with a node that no path
\* from the entry point reaches
SelfLoopDefinition == GraphDefinition(<<"A">>, "A" :> <<"A">>, "A")

CycleDefinition ==
    GraphDefinition(<<"A", "B">>, ("A" :> <<"B">>) @@ ("B" :> <<"A">>), "A")

UnreachableDefinition == GraphDefinition(<<"A", "B">>, "A" :> <<>>, "A")

\* C16: validate_structure raises if and only if the entry point, an edge
\* source or an edge target is not in the node list; definitions with a
\* self-loop, a cycle or an unreachable node pass.
C16_ValidationIsStructural ==
    last_call.op = "validate_structure" =>
        /\ last_call.outcome = "ValueError" <=> ~ StructurallyValid(last_call.arg)
        /\ last_call.outcome \in {"", "ValueError"}
        /\ last_call.arg \in {SelfLoopDefinition, CycleDefinition,
                              UnreachableDefinition} => last_call.outcome = ""

\* validate_structure raised for a definition whose only fault is the second
\* target of an adjacency list
C16_Witness ==
    /\ last_call.op = "validate_structure"
    /\ last_call.arg = GraphDefinition(<<"A", "B">>, "B" :> <<"A", "C">>, "A")
    /\ last_call.outcome = "ValueError"

\* validate_structure passed the definition with a cycle
C16_WitnessCycle ==
    /\ last_call.op = "validate_structure"
    /\ last_call.arg = CycleDefinition
    /\ last_call.outcome = ""

\* C17: constructing a graph fails when a node of its list is not registered,
\* fails with the structural error, raised first, when the definition is not
\* structurally valid, and succeeds otherwise; every stored graph, the only
\* graphs runs start on, is structurally valid with all its nodes registered.
C17_OnlyValidGraphsStored ==
    /\ last_call.op = "create_graph" =>
         LET def == SubmittedDefinitions[last_call.arg[1]] IN
         /\ last_call.outcome = "not in nodes list" <=> ~ StructurallyValid(def)
         /\ last_call.outcome = "not found in registry" <=>
               (/\ StructurallyValid(def)
                /\ ~ (ListItems(def.nodes) \subseteq DOMAIN registry))
         /\ last_call.outcome = "" => last_call.arg[1] \in created_graphs
    /\ \A id \in created_graphs :
         /\ StructurallyValid(SubmittedDefinitions[id])
         /\ ListItems(SubmittedDefinitions[id].nodes) \subseteq DOMAIN registry

\* a definition that is not structurally valid and whose node is not
\* registered was refused with the structural error
C17_Witness ==
    /\ last_call = [op |-> "create_graph", arg |-> <<"g8">>,
                    outcome |-> "not in nodes list"]
    /\ "A" \notin DOMAIN registry

\* a structurally valid definition was refused for an unregistered node
C17_WitnessMissing ==
    /\ last_call = [op |-> "create_graph", arg |-> <<"g10">>,
                    outcome |-> "not found in registry"]
    /\ "A" \in DOMAIN registry
    /\ created_graphs # {}

\* C18: register_node with a name that is registered raises and leaves the
\* registry as it was: get_node returns the function registered first.
C18_DuplicateRegistration ==
    [][(/\ last_call'.op = "register_node"
        /\ last_call'.arg[1] \in DOMAIN registry) =>
            /\ last_call'.outcome = "ValueError"
            /\ registry' = registry
            /\ ~ get_node_raises(registry', last_call'.arg[1])
            /\ get_node(registry', last_call'.arg[1]) =
                  registry[last_call'.arg[1]]]_vars

\* a registered name was given to register_node with another function
C18_Witness ==
    /\ last_call.op = "register_node"
    /\ last_call.outcome = "ValueError"
    /\ registry[last_call.arg[1]] # last_call.arg[2]
    /\ Cardinality(DOMAIN registry) > 1

\* C19: once a job record is COMPLETED or FAILED, no operation of the job
\* tracker sets its status to STARTED or RUNNING or clears its end timestamp.
C19_NeverResurrected ==
    [][\A r \in DOMAIN jobs :
          (jobs[r].status \in {"completed", "failed"} /\ r \in DOMAIN jobs') =>
              /\ jobs'[r].status \in {"completed", "failed"}
              /\ jobs'[r].end_time # NoTime]_vars

\* the operations that look the record up before they act
LookupOps == {"update_job_progress", "mark_job_completed", "mark_job_failed"}

\* C20: update_job_progress, mark_job_completed and mark_job_failed called
\* with a run id that has no record return without raising and leave the job
\* map as it was, however often they are called.
C20_UnknownRunIdNoOp ==
    [][(/\ last_call'.op \in LookupOps
        /\ last_call'.arg[1] \notin DOMAIN jobs) =>
            /\ jobs' = jobs
            /\ last_call'.outcome = ""]_vars

\* mark_job_failed was called for a run id without a record while another
\* run's record existed, and no record was made
C20_Witness ==
    /\ last_call.op = "mark_job_failed"
    /\ last_call.arg[1] \notin DOMAIN jobs
    /\ DOMAIN jobs # {}

\* C11: every event of an async run is published on the topic that is the
\* graph id of the run's job record, and the graph_id field of its COMPLETED
\* event is that id.
C11_EventsOnJobTopic ==
    \A r \in DOMAIN jobs :
        bcast[r].status # "idle" =>
            /\ bcast[r].graph_id = jobs[r].graph_id
            /\ bcast[r].message.event = "COMPLETED" =>
                  bcast[r].message.graph_id = jobs[r].graph_id

\* C12: in each run the progress update naming the k-th node, with completed
\* count k-1, is applied before the node is invoked and after the log entry
\* and the NODE_EXECUTED event of every earlier node; a node's log entry,
\* with iteration k, is appended before its event is published; and the
\* events carry the nodes and iterations of the log, in its order, whatever
\* the other run does.
C12_NodeOrder ==
    \A r \in RunIds :
        LET k == run[r].iteration_count
            log == run[r].execution_log
            events == hist[r].node_log
        IN  /\ run[r].pc = "invoke" =>
                  /\ jobs[r].last_node = run[r].current_node
                  /\ jobs[r].completed_nodes = k - 1
                  /\ hist[r].invoked = k - 1
                  /\ Len(log) = k - 1
                  /\ Len(events) = k - 1
            /\ Len(events) <= Len(log)
            /\ Len(log) <= Len(events) + 1
            /\ \A i \in 1..Len(events) : events[i] = log[i]
            /\ \A i \in 1..Len(log) : log[i].iteration = i
            /\ hist[r].updates <= Len(events) + 2
            /\ run[r].pc = "returned" => events = log

\* two runs overlapped: the second was submitted before the first ended, the
\* first has returned, and both have published the events of their two nodes
C12_Witness ==
    /\ run["r1"].pc = "returned"
    /\ Len(hist["r1"].node_log) = 2
    /\ Len(hist["r2"].node_log) = 2
    /\ run["r2"].pc = "send_text"
    /\ jobs["r2"].start_time < jobs["r1"].end_time[1]

\* C30: the summarization workflow ends with a refined summary that is not
\* empty and not longer than max_length, a positive current_length and a
\* non-empty execution log.
C30_SummaryWithinMaxLength ==
    (sync_pc = "returned" /\ sync_graph = SubmittedDefinitions["g14"]) =>
        /\ sync_state.refined_summary > 0
        /\ sync_state.refined_summary <= sync_state.max_length
        /\ sync_state.current_length > 0
        /\ sync_log # <<>>

\* C30 amended: the summarization workflow ends with a refined summary that
\* is not empty, a positive current_length and a non-empty execution log, and
\* when max_length is at least 1 the refined summary is not longer than
\* max_length.
C30_SummaryWithinPositiveMaxLength ==
    (sync_pc = "returned" /\ sync_graph = SubmittedDefinitions["g14"]) =>
        /\ sync_state.refined_summary > 0
        /\ sync_state.max_length >= 1 =>
              sync_state.refined_summary <= sync_state.max_length
        /\ sync_state.current_length = sync_state.refined_summary
        /\ sync_log # <<>>

\* the workflow ended with both sentences in the refined summary, within
\* max_length
C30_Witness ==
    /\ sync_pc = "returned"
    /\ sync_graph = SubmittedDefinitions["g14"]
    /\ sync_state.refined_summary = 16
    /\ sync_state.max_length = 17

\* C21: update_job_progress on an existing record sets progress_percent to
\* floor(100 * completed / total), or to 0 when total is 0, sets last_node to
\* the node given and sets the status to RUNNING.
C21_PercentIsFloor ==
    [][(/\ last_call'.op = "update_job_progress"
        /\ last_call'.arg[1] \in DOMAIN jobs) =>
            LET job == jobs'[last_call'.arg[1]]
                node == last_call'.arg[2]
                completed == last_call'.arg[3]
                total == last_call'.arg[4]
            IN  /\ job.progress_percent =
                      IF total > 0 THEN (100 * completed) \div total ELSE 0
                /\ job.last_node = node
                /\ job.status = "running"]_vars

\* C22: in every reachable state of an async run the progress percent of the
\* job is an integer between 0 and 100.
C22_PercentInRange ==
    \A r \in DOMAIN jobs : jobs[r].progress_percent \in 0..100

\* C23: for a job driven by an async run, the error text is non-empty only if
\* the status is FAILED, and the end timestamp is set exactly when the status
\* is COMPLETED or FAILED.
C23_ErrorAndEndTime ==
    \A r \in DOMAIN jobs :
        /\ jobs[r].error_message # <<>> => jobs[r].status = "failed"
        /\ jobs[r].end_time # NoTime <=>
                jobs[r].status \in {"completed", "failed"}

\* a run returned and left its job COMPLETED, ended and without an error text
C23_Witness ==
    \E r \in DOMAIN jobs :
        /\ run[r].pc = "returned"
        /\ jobs[r].status = "completed"
        /\ jobs[r].end_time # NoTime
        /\ jobs[r].error_message = <<>>

\* a run's node failed and left its job FAILED, ended and with the error text
\* of the outer handler
C23_WitnessFailed ==
    \E r \in DOMAIN jobs :
        /\ run[r].pc = "raised"
        /\ jobs[r].status = "failed"
        /\ jobs[r].end_time # NoTime
        /\ jobs[r].error_message = OuterText(NodeFailedText(run[r].current_node))

\* C26: between the operations of the manager no graph_id of the connection
\* map has an empty set of sockets: disconnect and the cleanup of failed
\* sends delete the key with its last socket, and connect adds the socket to
\* the set it creates.
C26_NoEmptySubscriberSet ==
    \A t \in DOMAIN active_connections : active_connections[t] # {}

\* the cleanup of a publish has removed the last socket of the topic, which
\* never disconnected, and the key with it
C26_Witness ==
    \E w \in dropped :
        /\ chan[w] = [st |-> "open", graph_id |-> ExecutionTopic]
        /\ ExecutionTopic \notin DOMAIN active_connections

\* a disconnect has removed the last socket of a topic and the key with it
C26_WitnessDisconnect ==
    \E w \in WebSockets :
        /\ chan[w].st = "closed"
        /\ w \notin dropped
        /\ chan[w].graph_id \notin DOMAIN active_connections

C25_WitnessRunning ==
    /\ last_call.op = "cleanup_old_jobs"
    /\ last_call.outcome # {}
    /\ \E r \in DOMAIN jobs :
          /\ jobs[r].status = "running"
          /\ jobs[r].start_time < last_call.arg[2] - last_call.arg[1]

\* a response of get_run_status that shows each operation whole: the end
\* time with the terminal status, 100 percent with COMPLETED, the error text
\* with FAILED, and nothing of a progress update with STARTED
WholeRecord(response) ==
    /\ response.end_time # NoTime <=> response.status \in {"completed", "failed"}
    /\ response.status = "completed" =>
          response.progress_percent = 100 /\ response.error_message = <<>>
    /\ response.status = "failed" => response.error_message # <<>>
    /\ response.status = "started" =>
          response.progress_percent = 0 /\ response.last_node = ""
    /\ response.status = "running" => response.last_node # ""

\* C24: a step of one run (a tracker operation on its run_id included) and a
\* status poll leave the record of every other run_id as it was, and a poll
\* returns the record as the last whole operation left it, never one with a
\* part of an operation's field changes, however the runs, the submissions
\* and the polls interleave.
C24_RecordsIsolatedReadsWhole ==
    [][/\ \A r \in RunIds :
            (run'[r] = run[r] /\ bcast'[r] = bcast[r]) =>
                /\ r \in DOMAIN jobs' <=> r \in DOMAIN jobs
                /\ r \in DOMAIN jobs => jobs'[r] = jobs[r]
       /\ last_call' # last_call =>
            /\ jobs' = jobs
            /\ LET run_id == last_call'.arg[1]
               IN  IF run_id \in DOMAIN jobs
                   THEN /\ last_call'.outcome = to_dict(jobs[run_id])
                        /\ WholeRecord(last_call'.outcome)
                   ELSE last_call'.outcome = [status_code |-> 404]]_vars

\* a poll has returned the RUNNING record of one run while the other run, with
\* a record of its own, was between two of its steps
C24_Witness ==
    /\ last_call.op = "get_run_status"
    /\ "status" \in DOMAIN last_call.outcome
    /\ last_call.outcome.status = "running"
    /\ \E r \in DOMAIN jobs :
          /\ r # last_call.arg[1]
          /\ jobs[r].status = "running"
          /\ run[r].pc = "send_text"

\* the nodes of a log, in its order
LogNodes(log) == [i \in 1..Len(log) |-> log[i].node]

\* the state after the nodes of the log have run, one after the other
ApplyLog(log, state) ==
    LET after[i \in 0..Len(log)] ==
            IF i = 0 THEN state
            ELSE FuncApply(get_node(RegisteredNodes, log[i].node), after[i - 1])
    IN  after[Len(log)]

\* the initial state that is submitted with the graph
InitialState(graph_id) == CHOOSE state \in {input[2] : input \in BothInputs} :
                              <<graph_id, state>> \in BothInputs

\* the returned log and state of an execution of the graph from its initial
\* state: iterations 1..n, the final state that of the log's nodes applied in
\* order, [A, B] for the chain and [A] for the single node
ReturnedLog(graph_id, log, state) ==
    /\ \A i \in 1..Len(log) : log[i].iteration = i
    /\ state = ApplyLog(log, InitialState(graph_id))
    /\ graph_id = "g2" =>
          /\ LogNodes(log) = <<"A", "B">>
          /\ state = FuncApply("B", FuncApply("A", InitialState(graph_id)))
    /\ graph_id = "g1" => Len(log) = 1 /\ log[1].node = "A"

\* C28: execute and execute_async append one log entry for each node that ran
\* without raising, in the order of execution and with the iterations 1, 2,
\* ..., and nothing else changes the log or the state; the log they return
\* of the chain A -> [B] is [A, B] with the final state B(A(s)), and of the
\* single node A it is the one entry of A.
C28_LogOfExecutedNodes ==
    [][/\ IF sync_invoked' = sync_invoked + 1 /\ sync_pc' = "loop"
          THEN /\ sync_log' = Append(sync_log,
                                [node |-> sync_current_node,
                                 iteration |-> Len(sync_log) + 1])
               /\ sync_state' =
                    FuncApply(get_node(registry, sync_current_node), sync_state)
          ELSE sync_log' = sync_log /\ sync_state' = sync_state
       /\ (sync_pc = "loop" /\ sync_pc' = "returned") =>
            \E graph_id \in DOMAIN graphs_store(registry) :
                /\ graphs_store(registry)[graph_id] = sync_graph
                /\ ReturnedLog(graph_id, sync_log', sync_state')
       /\ \A r \in RunIds :
            /\ IF /\ hist'[r].invoked = hist[r].invoked + 1
                  /\ run'[r].pc = "send_node_executed"
               THEN /\ run'[r].execution_log =
                          Append(run[r].execution_log,
                                 [node |-> run[r].current_node,
                                  iteration |-> Len(run[r].execution_log) + 1])
                    /\ run'[r].state =
                          FuncApply(get_node(registry, run[r].current_node),
                                    run[r].state)
               ELSE \/ run[r].pc = "unsubmitted"
                    \/ /\ run'[r].execution_log = run[r].execution_log
                       /\ run'[r].state = run[r].state
            /\ (run[r].pc # "returned" /\ run'[r].pc = "returned") =>
                  ReturnedLog(run'[r].graph_id, run'[r].execution_log,
                              run'[r].state)]_vars

\* both executions have returned the log [A, B] of the chain
C28_Witness ==
    /\ sync_pc = "returned"
    /\ LogNodes(sync_log) = <<"A", "B">>
    /\ \E r \in RunIds :
          /\ run[r].pc = "returned"
          /\ run[r].graph_id = "g2"
          /\ run[r].execution_log = sync_log

\* the async run has returned the log of the loop, in which refine_summary
\* ran again, and the state the node functions made
C28_WitnessLoop ==
    \E r \in RunIds :
        /\ run[r].pc = "returned"
        /\ Len(run[r].execution_log) = 2 * MaxRefine
        /\ LogNodes(run[r].execution_log)[3] = "refine_summary"
        /\ run[r].state # InitialState("g5")

\* the initial state of the execution that made the state: every request
\* starts with no summary, length and refinement count 0, and no node
\* function writes max_length, max_refinement_iterations or the text
InitialOf(state) ==
    WorkflowState(0, state.max_length, 0, state.max_refinement_iterations,
                  state.parts)

\* the executions made so far: the graph, the state and the log of the
\* synchronous execute and of each submitted async run
Executions ==
    {[graph |-> sync_graph, state |-> sync_state, log |-> sync_log,
      returned |-> sync_pc = "returned"]}
    \cup {[graph |-> GraphOf(r), state |-> run[r].state,
           log |-> run[r].execution_log,
           returned |-> run[r].pc = "returned"] :
            r \in {id \in RunIds : run[id].pc # "unsubmitted"}}

\* C29: the engine keeps nothing from one run to another: two executions
\* of the same graph from the same initial state, one after the other or at
\* the same time, return the same final state and the same log (nodes and
\* iterations), and the first iteration of every execution is 1.
C29_RunsIndependent ==
    /\ \A e1, e2 \in Executions :
          (/\ e1.returned /\ e2.returned
           /\ e1.graph = e2.graph
           /\ InitialOf(e1.state) = InitialOf(e2.state)) =>
              e1.state = e2.state /\ e1.log = e2.log
    /\ \A e \in Executions : e.log # <<>> => e.log[1].iteration = 1

\* the two async runs and the synchronous execute have returned from the
\* same graph and initial state, the second run submitted while the first
\* one was running
C29_Witness ==
    /\ sync_pc = "returned"
    /\ sync_log # <<>>
    /\ \A r \in RunIds :
          /\ run[r].pc = "returned"
          /\ GraphOf(r) = sync_graph
          /\ InitialOf(run[r].state) = InitialOf(sync_state)
    /\ jobs["r2"].start_time < jobs["r1"].end_time[1]

\* the second run was submitted after the first one had returned
C29_WitnessSequential ==
    /\ \A r \in RunIds :
          /\ run[r].pc = "returned"
          /\ run[r].state = run["r1"].state
    /\ jobs["r2"].start_time > jobs["r1"].end_time[1]

\* C31: for the same graph and initial state execute_async runs the nodes
\* that execute runs: when both have ended, the async run has raised exactly
\* if execute has raised, and when both have returned their final states
\* and their logs (nodes and iterations) are equal.
C31_AsyncAsSync ==
    \A r \in RunIds :
        (/\ run[r].pc \in {"returned", "raised"}
         /\ sync_pc \in {"returned", "raised"}
         /\ GraphOf(r) = sync_graph
         /\ InitialOf(run[r].state) = InitialOf(sync_state)) =>
            /\ run[r].pc = sync_pc
            /\ run[r].pc = "returned" =>
                  /\ run[r].state = sync_state
                  /\ run[r].execution_log = sync_log

\* C32: no call of broadcast_to_graph raises to its caller, whatever the
\* connects, the disconnects and the other publishes do while its sends are
\* awaited.
C32_PublishNeverRaises ==
    \A r \in RunIds : bcast[r].status # "raised"

C34_RegistryOnlyGrows ==
    [][/\ \A name \in DOMAIN registry :
            /\ has_node(registry', name)
            /\ get_node(registry', name) = get_node(registry, name)
       /\ \A id \in created_graphs' :
            \A i \in 1..Len(SubmittedDefinitions[id].nodes) :
                has_node(registry', SubmittedDefinitions[id].nodes[i])
       /\ (sync_pc' = "loop" /\ sync_current_node' # None) =>
            /\ InList(sync_current_node', sync_graph'.nodes)
            /\ ~ get_node_raises(registry', sync_current_node')
       /\ \A r \in RunIds :
            run'[r].pc = "invoke" =>
                /\ InList(run'[r].current_node,
                          SubmittedDefinitions[run'[r].graph_id].nodes)
                /\ ~ get_node_raises(registry', run'[r].current_node)]_vars

\* B was registered after the single-node graph A was created, while an async
\* run of that graph waits for its node function
C34_Witness ==
    /\ last_call = [op |-> "register_node", arg |-> <<"B", "identity">>,
                    outcome |-> ""]
    /\ "g1" \in created_graphs
    /\ \E r \in RunIds :
          /\ run[r].graph_id = "g1"
          /\ run[r].pc = "invoke"
          /\ jobs[r].last_node = "A"

\* a second registration of A was refused while the synchronous execute of
\* the chain was at its second node
C34_WitnessRefused ==
    /\ last_call.op = "register_node"
    /\ last_call.arg[1] = "A"
    /\ last_call.outcome = "ValueError"
    /\ sync_pc = "loop"
    /\ sync_current_node = "B"
    /\ sync_log # <<>>

\* the number of executions of refine_summary in a log
RefineCount(log) ==
    Cardinality({ i \in 1..Len(log) : log[i].node = "refine_summary" })

\* the largest number of refinements of a state's run
RefineBound(state) ==
    IF state.max_refinement_iterations > 1
    THEN state.max_refinement_iterations ELSE 1

\* C35: in the summarization workflow, started with refinement_iterations 0,
\* each execution of refine_summary adds 1 to refinement_iterations and
\* check_length_loop leaves the state as it is; refine_summary runs at most
\* max(1, max_refinement_iterations) times, the log has at most
\* 3 + 2 * max(1, max_refinement_iterations) entries, and when that is at
\* most 1000 the run does not end with the iteration-limit error.
C35_RefinementsBounded ==
    [][/\ (sync_invoked' = sync_invoked + 1 /\ sync_pc' = "loop") =>
            /\ sync_current_node = "refine_summary" =>
                  sync_state'.refinement_iterations =
                      sync_state.refinement_iterations + 1
            /\ sync_current_node = "check_length_loop" =>
                  sync_state' = sync_state
       /\ RefineCount(sync_log') <= RefineBound(sync_state')
       /\ Len(sync_log') <= 3 + 2 * RefineBound(sync_state')
       /\ 3 + 2 * RefineBound(sync_state') <= 1000 =>
            sync_error' # SyncCeilingText
       /\ \A r \in RunIds :
            /\ (/\ hist'[r].invoked = hist[r].invoked + 1
                /\ run'[r].pc = "send_node_executed") =>
                  /\ run[r].current_node = "refine_summary" =>
                        run'[r].state.refinement_iterations =
                            run[r].state.refinement_iterations + 1
                  /\ run[r].current_node = "check_length_loop" =>
                        run'[r].state = run[r].state
            /\ run'[r].pc # "unsubmitted" =>
                  /\ RefineCount(run'[r].execution_log) <=
                        RefineBound(run'[r].state)
                  /\ Len(run'[r].execution_log) <=
                        3 + 2 * RefineBound(run'[r].state)
                  /\ 3 + 2 * RefineBound(run'[r].state) <= 1000 =>
                        run'[r].error_msg # CeilingText]_vars

\* execute has returned a log of 999 entries: the summary never fitted and
\* all 498 refinements were made
C35_Witness ==
    /\ sync_pc = "returned"
    /\ Len(sync_log) = 3 + 2 * sync_state.max_refinement_iterations
    /\ Len(sync_log) = max_iterations - 1
    /\ RefineCount(sync_log) = sync_state.max_refinement_iterations
    /\ sync_state.refinement_iterations = RefineCount(sync_log)

\* execute_async has returned a log in which every allowed refinement, more
\* than one, was made
C35_WitnessAsync ==
    \E r \in RunIds :
        /\ run[r].pc = "returned"
        /\ run[r].state.max_refinement_iterations \in 2..MaxRefine
        /\ RefineCount(run[r].execution_log) =
              run[r].state.max_refinement_iterations
        /\ Len(run[r].execution_log) =
              3 + 2 * run[r].state.max_refinement_iterations

\* with one refinement more the log would have 1001 entries, and execute
\* has raised the iteration-limit error
C35_WitnessBeyond ==
    /\ sync_pc = "raised"
    /\ sync_error = SyncCeilingText
    /\ 3 + 2 * RefineBound(sync_state) = max_iterations + 1

====
